---------------------------- MODULE Spec2Model ----------------------------
(***************************************************************************)
(* Model of the Cosina Voigtlander scraper (src/main.py).                  *)
(*                                                                         *)
(* Strings are sequences of one-character strings.  The non-ASCII          *)
(* characters of the source are written with ASCII stand-ins:              *)
(*     "~"  the "approximately" marker stripped by format_focal (line 86)  *)
(*     "x"  the multiplication sign tested by format_cvt (line 71)         *)
(*     "G"  the "groups" counter of format_lens_const (line 59)            *)
(*     "E"  the "elements"/"blades" counter (lines 59, 132)                *)
(*     "F","S",":"  the full-frame-equivalent marker dx (line 87), whose   *)
(*          seven characters before the colon are abbreviated to two       *)
(*     "V"  the word "voigtlander" inside a URL (lines 7, 50)              *)
(* Spec-row headers and mount display words are compared only for          *)
(* equality by the code and are kept as atoms.                             *)
(***************************************************************************)
EXTENDS Integers, Sequences, FiniteSets, TLC

VARIABLES homepage, cache, pc, mounts, mi, links, lenses, emitted,
          lastCall, okGets, net, runs, call, ret

vars == <<homepage, cache, pc, mounts, mi, links, lenses, emitted,
          lastCall, okGets, net, runs, call, ret>>

crawlVars == <<homepage, cache, pc, mounts, mi, links, lenses, emitted,
               lastCall, okGets, net, runs>>

fnVars == <<call, ret>>

(***************************************************************************)
(* Python string primitives                                                *)
(***************************************************************************)
Digit == {"0", "1", "2", "3", "4", "5", "6", "7", "8", "9"}

Whitespace == {" "}

MatchAt(s, p, i) ==
    /\ i >= 1
    /\ i + Len(p) - 1 <= Len(s)
    /\ SubSeq(s, i, i + Len(p) - 1) = p

\* str.find, 1-based; 0 when p does not occur in s
Find(s, p) ==
    IF \E i \in 1..Len(s) : MatchAt(s, p, i)
    THEN CHOOSE i \in 1..Len(s) :
             /\ MatchAt(s, p, i)
             /\ \A j \in 1..(i - 1) : ~MatchAt(s, p, j)
    ELSE 0

\* p in s
Contains(s, p) == Find(s, p) # 0

StartsWith(s, p) == MatchAt(s, p, 1)

\* str.replace: every non-overlapping occurrence, left to right
RECURSIVE Replace(_, _, _)
Replace(s, p, r) ==
    LET i == Find(s, p)
    IN  IF i = 0
        THEN s
        ELSE SubSeq(s, 1, i - 1) \o r
                 \o Replace(SubSeq(s, i + Len(p), Len(s)), p, r)

\* s.split(p)[1], for s containing p: the text between the first and the
\* second occurrence of p (or the end of s)
SplitSecond(s, p) ==
    LET i    == Find(s, p)
        rest == SubSeq(s, i + Len(p), Len(s))
        j    == Find(rest, p)
    IN  IF j = 0 THEN rest ELSE SubSeq(rest, 1, j - 1)

\* s[:-1]
DropLast(s) == SubSeq(s, 1, Len(s) - 1)

\* s.rstrip(c)
RECURSIVE RStrip(_, _)
RStrip(s, cs) ==
    IF s # <<>> /\ s[Len(s)] \in cs THEN RStrip(DropLast(s), cs) ELSE s

RECURSIVE LStrip(_, _)
LStrip(s, cs) ==
    IF s # <<>> /\ Head(s) \in cs THEN LStrip(Tail(s), cs) ELSE s

\* s.strip()
Strip(s) == LStrip(RStrip(s, Whitespace), Whitespace)

\* sep.join(parts)
RECURSIVE Join(_, _)
Join(parts, sep) ==
    IF parts = <<>> THEN <<>>
    ELSE IF Len(parts) = 1 THEN parts[1]
    ELSE parts[1] \o sep \o Join(Tail(parts), sep)

\* length of the longest prefix of s made of characters of cs
RECURSIVE RunLen(_, _)
RunLen(s, cs) ==
    IF s # <<>> /\ Head(s) \in cs THEN 1 + RunLen(Tail(s), cs) ELSE 0

\* re.findall(r"[\d\.]+", s)
RECURSIVE findall_num(_)
findall_num(s) ==
    IF s = <<>> THEN <<>>
    ELSE LET n == RunLen(s, Digit \cup {"."})
         IN  IF n = 0
             THEN findall_num(Tail(s))
             ELSE <<SubSeq(s, 1, n)>> \o findall_num(SubSeq(s, n + 1, Len(s)))

DigitVal(c) ==
    CASE c = "0" -> 0 [] c = "1" -> 1 [] c = "2" -> 2 [] c = "3" -> 3
      [] c = "4" -> 4 [] c = "5" -> 5 [] c = "6" -> 6 [] c = "7" -> 7
      [] c = "8" -> 8 [] c = "9" -> 9

RECURSIVE IntOf(_)
IntOf(ds) == IF ds = <<>> THEN 0 ELSE IntOf(DropLast(ds)) * 10 + DigitVal(ds[Len(ds)])

RECURSIVE Pow10(_)
Pow10(n) == IF n = 0 THEN 1 ELSE 10 * Pow10(n - 1)

AllDigits(s) == \A i \in 1..Len(s) : s[i] \in Digit

\* float(s) for the decimal forms (optional surrounding whitespace, optional
\* sign, digits with at most one point) and for "inf"; any other text raises
\* ValueError (ok = FALSE).  The value is the exact rational num/den, or
\* +-infinity.  Exponents, underscores and "nan" are outside the inputs used.
PyFloat(s0) ==
    LET s   == Strip(s0)
        neg == s # <<>> /\ Head(s) = "-"
        u   == IF s # <<>> /\ Head(s) \in {"+", "-"} THEN Tail(s) ELSE s
        dot == Find(u, <<".">>)
        ip  == IF dot = 0 THEN u ELSE SubSeq(u, 1, dot - 1)
        fp  == IF dot = 0 THEN <<>> ELSE SubSeq(u, dot + 1, Len(u))
        sgn == IF neg THEN -1 ELSE 1
    IN  IF u = <<"i", "n", "f">>
        THEN [ok |-> TRUE, inf |-> TRUE, num |-> sgn, den |-> 1]
        ELSE IF AllDigits(ip) /\ AllDigits(fp) /\ Len(ip) + Len(fp) >= 1
        THEN [ok |-> TRUE, inf |-> FALSE,
              num |-> sgn * (IntOf(ip) * Pow10(Len(fp)) + IntOf(fp)),
              den |-> Pow10(Len(fp))]
        ELSE [ok |-> FALSE, inf |-> FALSE, num |-> 0, den |-> 1]

\* a < b on floats
FloatLt(a, b) ==
    IF a.inf /\ b.inf THEN a.num < b.num
    ELSE IF a.inf THEN a.num < 0
    ELSE IF b.inf THEN b.num > 0
    ELSE a.num * b.den < b.num * a.den

FloatOfInt(k) == [ok |-> TRUE, inf |-> FALSE, num |-> k, den |-> 1]

(***************************************************************************)
(* Literal text of the source                                              *)
(***************************************************************************)
\* "mm" (line 85)
UnitMM == <<"m", "m">>

\* the "approximately" marker (line 86)
Approx == <<"~">>

\* dx, the full-frame-equivalent marker (line 87)
DX == <<"F", "S", ":">>

\* "full frame equivalent: " (line 92)
DXEnglish ==
    <<"f", "u", "l", "l", " ", "f", "r", "a", "m", "e", " ", "e", "q", "u",
      "i", "v", "a", "l", "e", "n", "t", ":", " ">>

\* 'data-sort-value="' (line 93)
SortAttrOpen ==
    <<"d", "a", "t", "a", "-", "s", "o", "r", "t", "-", "v", "a", "l", "u",
      "e", "=", "\"">>

\* '! style = "background:#' (line 106)
StyleOpen ==
    <<"!", " ", "s", "t", "y", "l", "e", " ", "=", " ", "\"", "b", "a",
      "c", "k", "g", "r", "o", "u", "n", "d", ":", "#">>

\* ';" ' (line 106)
StyleClose == <<";", "\"", " ">>

\* "{{cvt|" (lines 72, 74)
CvtOpen == <<"{", "{", "c", "v", "t", "|">>

\* "{{f/|" (line 81)
FOpen == <<"{", "{", "f", "/", "|">>

\* "}}"
TemplateClose == <<"}", "}">>

\* the multiplication sign (line 71)
Times == <<"x">>

(***************************************************************************)
(* Field normalizers (lines 58-107).  Each returns [err, out]: err is TRUE *)
(* when the Python function raises instead of returning.                   *)
(***************************************************************************)
Return(s) == [err |-> FALSE, out |-> s]

Raise == [err |-> TRUE, out |-> <<>>]

\* re.match(r"(\d+)G(\d+)E", s): [ok, groups, elements]
LensConstMatch(s) ==
    LET n1 == RunLen(s, Digit)
        r1 == SubSeq(s, n1 + 1, Len(s))
        r2 == IF r1 = <<>> THEN <<>> ELSE Tail(r1)
        n2 == RunLen(r2, Digit)
        r3 == SubSeq(r2, n2 + 1, Len(r2))
    IN  [ok |-> /\ n1 >= 1
                /\ r1 # <<>> /\ Head(r1) = "G"
                /\ n2 >= 1
                /\ r3 # <<>> /\ Head(r3) = "E",
         groups   |-> SubSeq(s, 1, n1),
         elements |-> SubSeq(r2, 1, n2)]

format_lens_const(japanese_const) ==
    LET m == LensConstMatch(japanese_const)
    IN  IF m.ok
        THEN Return(m.elements \o <<"e", "/">> \o m.groups \o <<"g">>)
        ELSE Return(japanese_const)

format_cvt(value, unit) ==
    LET numeric_values == findall_num(value)
        unit_target    == IF unit = <<"m">> THEN <<"m", "|", "f", "t">> ELSE unit
    IN  IF Contains(value, Times)
        THEN Return(CvtOpen \o Join(numeric_values, <<"|", "x", "|">>)
                        \o <<"|">> \o unit_target \o TemplateClose)
        ELSE IF numeric_values # <<>>
        THEN Return(CvtOpen \o numeric_values[1]
                        \o <<"|">> \o unit_target \o TemplateClose)
        ELSE Return(value)

\* whether r"1 ?: ?([\d\.]+)" matches s at position i, and the start of
\* group 1 when it does (0 otherwise)
FNumberGroupAt(s, i) ==
    LET At(j) == IF j >= 1 /\ j <= Len(s) THEN s[j] ELSE "end"
        j1 == IF At(i + 1) = " " THEN i + 2 ELSE i + 1
        j2 == IF At(j1 + 1) = " " THEN j1 + 2 ELSE j1 + 1
    IN  IF At(i) = "1" /\ At(j1) = ":" /\ At(j2) \in Digit \cup {"."}
        THEN j2
        ELSE 0

\* re.search(r"1 ?: ?([\d\.]+)", s): [ok, group1]
FNumberSearch(s) ==
    LET hits == {i \in 1..Len(s) : FNumberGroupAt(s, i) # 0}
    IN  IF hits = {}
        THEN [ok |-> FALSE, group1 |-> <<>>]
        ELSE LET i == CHOOSE k \in hits : \A h \in hits : k <= h
                 g == FNumberGroupAt(s, i)
                 r == SubSeq(s, g, Len(s))
             IN  [ok |-> TRUE, group1 |-> SubSeq(r, 1, RunLen(r, Digit \cup {"."}))]

format_f_number(value) ==
    LET match == FNumberSearch(value)
    IN  IF match.ok
        THEN Return(FOpen \o match.group1 \o TemplateClose)
        ELSE Return(value)

\* the bands with the first boundary taken as inclusive
FocalColor_inclusive(ff_value) ==
    IF ~FloatLt(FloatOfInt(21), ff_value) THEN <<"f", "d", "d">>
    ELSE IF FloatLt(ff_value, FloatOfInt(40)) THEN <<"f", "e", "d">>
    ELSE IF FloatLt(ff_value, FloatOfInt(65)) THEN <<"f", "f", "d">>
    ELSE <<"d", "f", "d">>

\* the band of lines 98-105
FocalColor(ff_value) ==
    IF FloatLt(ff_value, FloatOfInt(21)) THEN <<"f", "d", "d">>
    ELSE IF FloatLt(ff_value, FloatOfInt(40)) THEN <<"f", "e", "d">>
    ELSE IF FloatLt(ff_value, FloatOfInt(65)) THEN <<"f", "f", "d">>
    ELSE <<"d", "f", "d">>

format_focal(value0) ==
    LET value1   == Replace(Replace(value0, UnitMM, <<>>), Approx, <<>>)
        hasDx    == Contains(value1, DX)
        ff_text  == IF hasDx THEN DropLast(SplitSecond(value1, DX)) ELSE value1
        value    == IF hasDx THEN Replace(value1, DX, DXEnglish) ELSE value1
        preamble == IF hasDx THEN SortAttrOpen \o ff_text \o <<"\"">> ELSE <<>>
        ff_value == PyFloat(ff_text)
    IN  IF ~ff_value.ok
        THEN Raise
        ELSE Return(StyleOpen \o FocalColor(ff_value) \o StyleClose
                        \o preamble \o <<"|">> \o value)

(***************************************************************************)
(* Page extractor (lines 111-147).  A page is what the selectors read off  *)
(* its markup: listing (homepage mount links: href and display-name text), *)
(* anchors (hrefs of the a elements), rows (header and value text of the   *)
(* specification rows), category and model (the two name elements;         *)
(* NoElement when select_one finds nothing).  A lens record is a Python    *)
(* dict: a function whose domain is the set of keys present.               *)
(***************************************************************************)
NoElement == "None"

\* the "not possible" marker of line 138
NotPossible == <<"N", "P">>

\* the accepted filter-size headers (line 137)
FilterHeaders == {"filter", "filter diameter", "filter size"}

\* dict.get(k, default)
Get(d, k, default) == IF k \in DOMAIN d THEN d[k] ELSE default

\* d[k] = v on a dict held as a function
Put(d, k, v) == (k :> v) @@ d

\* value.split("E")[0].strip() (line 132)
BeforeBlades(value) ==
    LET i == Find(value, <<"E">>)
    IN  Strip(IF i = 0 THEN value ELSE SubSeq(value, 1, i - 1))

\* one iteration of the loop of lines 118-140: [err, specs]
ParseRow(specs, header, value0) ==
    LET value == Strip(value0)
        Set(k, r) == [err |-> r.err,
                      specs |-> IF r.err THEN specs ELSE Put(specs, k, r.out)]
    IN  IF header = "focal length" THEN Set("focal_length", format_focal(value))
        ELSE IF header = "aperture ratio" THEN Set("f_number", format_f_number(value))
        ELSE IF header = "min focus distance"
        THEN Set("min_focus", format_cvt(value, <<"m">>))
        ELSE IF header = "lens construction"
        THEN Set("lens_const", format_lens_const(value))
        ELSE IF header = "aperture blades"
        THEN Set("aperture_blades", Return(BeforeBlades(value)))
        ELSE IF header = "max diameter x length"
        THEN Set("dimensions", format_cvt(value, <<"m", "m">>))
        ELSE IF header = "weight" THEN Set("weight", format_cvt(value, <<"g">>))
        ELSE IF header \in FilterHeaders
        THEN Set("filter_size",
                 Return(IF Contains(value, NotPossible)
                        THEN <<"N", "/", "A">> ELSE value))
        ELSE [err |-> FALSE, specs |-> specs]

RECURSIVE ParseRows(_, _)
ParseRows(specs, rows) ==
    IF rows = <<>> THEN [err |-> FALSE, specs |-> specs]
    ELSE LET r == ParseRow(specs, rows[1].header, rows[1].value)
         IN  IF r.err THEN r ELSE ParseRows(r.specs, Tail(rows))

\* lines 113-147, on the fetched page: [err, specs].  The name is the
\* category followed by the words of the model after its first two
\* (title-casing is not modelled); a missing name element raises.
parse_lens_page(content, lens_url) ==
    LET r == ParseRows([reference |-> lens_url], content.rows)
    IN  IF r.err \/ content.category = NoElement \/ content.model = NoElement
        THEN [err |-> TRUE, specs |-> <<>>]
        ELSE [err |-> FALSE,
              specs |-> Put(r.specs, "name",
                            <<content.category>>
                                \o SubSeq(content.model, 3, Len(content.model)))]

(***************************************************************************)
(* Site navigator (lines 32-54)                                            *)
(***************************************************************************)
Accessories == <<"ACCESSORIES">>

\* mounts[k] = v on an insertion-ordered dict held as a sequence of
\* [key, val]: an existing key keeps its place and takes the new value
DictSet(d, k, v) ==
    IF \E i \in 1..Len(d) : d[i].key = k
    THEN [i \in 1..Len(d) |-> IF d[i].key = k THEN [key |-> k, val |-> v] ELSE d[i]]
    ELSE Append(d, [key |-> k, val |-> v])

\* the loop with the display name read without strip=True
RECURSIVE MountLoop_unstripped(_, _)
MountLoop_unstripped(acc, items) ==
    IF items = <<>> THEN acc
    ELSE IF items[1].name = Accessories
    THEN MountLoop_unstripped(acc, Tail(items))
    ELSE MountLoop_unstripped(DictSet(acc, items[1].name, items[1].href), Tail(items))

\* the loop of lines 36-41 over the selected link elements
RECURSIVE MountLoop(_, _)
MountLoop(acc, items) ==
    IF items = <<>> THEN acc
    ELSE LET url        == items[1].href
             mount_name == Strip(items[1].name)
         IN  IF mount_name = Accessories
             THEN MountLoop(acc, Tail(items))
             ELSE MountLoop(DictSet(acc, mount_name, url), Tail(items))

\* lines 34-42, on the fetched homepage
get_mount_pages(content) == MountLoop(<<>>, content.listing)

\* the test of line 52
IsLensLink(link, mount_url) ==
    /\ StartsWith(link, mount_url)
    /\ RStrip(link, {"/"}) # RStrip(mount_url, {"/"})

\* lines 48-54, on the fetched mount page
get_lens_links(content, mount_url) ==
    {content.anchors[i] : i \in
        {j \in 1..Len(content.anchors) :
            /\ Contains(content.anchors[j], <<"V">>)
            /\ IsLensLink(content.anchors[j], mount_url)}}

(***************************************************************************)
(* Table renderer (lines 158-171)                                          *)
(***************************************************************************)
\* the key of lines 158-160: [err, key]; err when there is no numeric token
\* (IndexError) or float() rejects it (ValueError)
SortKey(x) ==
    LET toks == findall_num(Get(x, "focal_length", <<"0">>))
    IN  IF toks = <<>>
        THEN [err |-> TRUE, key |-> FloatOfInt(0)]
        ELSE [err |-> ~PyFloat(toks[1]).ok, key |-> PyFloat(toks[1])]

\* x placed after every element of the sorted sequence whose key is not
\* greater than its own (list.sort is stable)
RECURSIVE InsertByKey(_, _)
InsertByKey(sorted, x) ==
    IF sorted = <<>> THEN <<x>>
    ELSE IF FloatLt(SortKey(x).key, SortKey(sorted[1]).key)
    THEN <<x>> \o sorted
    ELSE <<sorted[1]>> \o InsertByKey(Tail(sorted), x)

RECURSIVE SortLoop(_, _)
SortLoop(sorted, rest) ==
    IF rest = <<>> THEN sorted
    ELSE SortLoop(InsertByKey(sorted, rest[1]), Tail(rest))

\* lenses.sort(key=...) of lines 158-160: [err, rows]
sort_lenses(lens_list) ==
    IF \E i \in 1..Len(lens_list) : SortKey(lens_list[i]).err
    THEN [err |-> TRUE, rows |-> <<>>]
    ELSE [err |-> FALSE, rows |-> SortLoop(<<>>, lens_list)]

\* the table of lines 162-169: the mount it names and cites, and one row
\* per lens in list order (the wikitext around them is fixed text)
render_table(mount_name, mount_url, rows) ==
    [mount_name |-> mount_name, mount_url |-> mount_url, rows |-> rows]

(***************************************************************************)
(* The site served to the crawler                                          *)
(***************************************************************************)
\* runs of the program against one cache directory
MaxRuns == 2

BASE_URL == <<"V", "/">>

MountA == <<"V", "/", "a", "/">>

MountB == <<"V", "/", "b", "/">>

MountC == <<"V", "/", "c">>

MountZ == <<"V", "/", "z", "/">>

LensA1 == <<"V", "/", "a", "/", "1", "/">>

LensA2 == <<"V", "/", "a", "/", "2", "/">>

LensB1 == <<"V", "/", "b", "/", "1", "/">>

LensC1 == <<"V", "/", "c", "/", "1", "/">>

SiteUrls == {BASE_URL, MountA, MountB, MountC, LensA1, LensA2, LensB1, LensC1}

EmptyPage ==
    [listing |-> <<>>, anchors |-> <<>>, rows |-> <<>>,
     category |-> NoElement, model |-> NoElement]

MountPage(as) == [EmptyPage EXCEPT !.anchors = as]

LensPage(rs, cat, mdl) ==
    [EmptyPage EXCEPT !.rows = rs, !.category = cat, !.model = mdl]

Row(h, v) == [header |-> h, value |-> v]

Entry(h, n) == [href |-> h, name |-> n]

\* homepage link elements: two mounts, a second listing of the first
\* mount's name under another URL, the accessories entry, and a mount
\* whose lens page carries a zoom range as focal length
EntryA == Entry(MountA, <<" ", "VM", " ">>)

EntryC == Entry(MountC, <<"Z">>)

EntryA2 == Entry(MountC, <<"VM">>)

EntryB == Entry(MountB, <<"E">>)

EntryAcc == Entry(MountZ, <<"ACCESSORIES", " ">>)

HomepageChoices ==
    { <<>>,
      <<EntryA, EntryC>>,
      <<EntryA, EntryAcc, EntryC>>,
      <<EntryA, EntryC, EntryA2>>,
      <<EntryB, EntryC>> }

\* what the server holds for each URL; a URL outside the domain is answered
\* with an error status
Server(hp) ==
    (BASE_URL :> [EmptyPage EXCEPT !.listing = hp])
    @@ (MountA :> MountPage(<<MountA, LensA1, LensA2, LensB1, LensA1>>))
    @@ (MountB :> MountPage(<<LensB1, <<"V", "/", "b">>>>))
    @@ (MountC :> MountPage(<<<<"V", "/", "c", "/">>, LensC1, <<"a", "/", "c", "/", "1">>>>))
    @@ (LensA1 :> LensPage(
            <<Row("focal length", <<"5", "0", "m", "m">>),
              Row("aperture ratio", <<"1", ":", "1", ".", "5">>),
              Row("lens construction", <<"6", "G", "8", "E">>),
              Row("aperture blades", <<"1", "0", "E">>)>>,
            "NOKTON", <<"50mm", "F1.5", "Aspherical", "II">>))
    @@ (LensA2 :> LensPage(
            <<Row("focal length", <<"~", "2", "1", "m", "m">>),
              Row("min focus distance", <<"0", ".", "5", "m">>),
              Row("filter", <<"N", "P">>)>>,
            "COLOR-SKOPAR", <<"21mm", "F3.5", "Aspherical">>))
    @@ (LensB1 :> LensPage(
            <<Row("focal length", <<"2", "1", "-", "3", "5", "m", "m">>)>>,
            "ZOOM", <<"21-35mm", "F4", "X">>))
    @@ (LensC1 :> LensPage(
            <<Row("weight", <<"2", "5", "5", "g">>),
              Row("max diameter x length", <<"6", "3", "x", "4", "2", "m", "m">>)>>,
            "APO-LANTHAR", <<"35mm", "F2", "Aspherical">>))

(***************************************************************************)
(* Fetch cache (lines 13-28)                                               *)
(***************************************************************************)
\* hashlib.md5(url).hexdigest() + ".html": a digest, taken as collision-free
cache_key(url) == <<"md5", url>>

\* what a raising call hands back: nothing
NoContent == [EmptyPage EXCEPT !.category = "no content"]

\* the body of an error response
ErrorPage == [EmptyPage EXCEPT !.category = "error page"]

\* fetch_with_cache without the test of line 17: a GET on every call
fetch_always_get(url, files, server) ==
    {[err |-> TRUE, content |-> NoContent, files |-> files, get |-> "failed"]}
    \cup
    (IF url \in DOMAIN server
     THEN {[err |-> FALSE, content |-> server[url],
            files |-> (cache_key(url) :> server[url]) @@ files, get |-> "ok"]}
     ELSE {})

\* fetch_with_cache with the body written before raise_for_status
fetch_write_before_status(url, files, server) ==
    IF cache_key(url) \in DOMAIN files
    THEN {[err |-> FALSE, content |-> files[cache_key(url)],
           files |-> files, get |-> "none"]}
    ELSE {[err |-> TRUE, content |-> NoContent,
           files |-> (cache_key(url) :> ErrorPage) @@ files, get |-> "failed"]}
         \cup
         (IF url \in DOMAIN server
          THEN {[err |-> FALSE, content |-> server[url],
                 files |-> (cache_key(url) :> server[url]) @@ files,
                 get |-> "ok"]}
          ELSE {})

\* fetch_with_cache(url) against the cache files and the server: the set of
\* possible outcomes [err, content, files, get].  A GET may fail for any
\* URL (network error or error status) and fails for a URL the server does
\* not hold; get is "none" when no request is issued.
fetch_with_cache(url, files, server) ==
    LET cache_path == cache_key(url)
    IN  IF cache_path \in DOMAIN files
        THEN {[err |-> FALSE, content |-> files[cache_path],
               files |-> files, get |-> "none"]}
        ELSE {[err |-> TRUE, content |-> NoContent,
               files |-> files, get |-> "failed"]}
             \cup
             (IF url \in DOMAIN server
              THEN {[err |-> FALSE, content |-> server[url],
                     files |-> (cache_path :> server[url]) @@ files,
                     get |-> "ok"]}
              ELSE {})

(***************************************************************************)
(* One run of main (lines 175-178), and re-runs over the same cache        *)
(*                                                                         *)
(* pc: "start" before get_mount_pages; "mount" before crawl_mount of       *)
(* mounts[mi]; "lens" inside the loop of lines 154-156 with links still to *)
(* parse; "done" after the last mount; "failed" once an exception has      *)
(* ended the process; "idle" when no crawl is modelled.                    *)
(* History: lastCall is the latest fetch_with_cache call, okGets counts    *)
(* the successful GETs per URL over all runs, net lists the GETs of the    *)
(* current run, emitted the tables printed by the current run.             *)
(***************************************************************************)
\* lastCall before any call is made
NoCall ==
    [url |-> <<>>, hit |-> FALSE, before |-> <<>>, get |-> "none",
     err |-> FALSE, content |-> NoContent, run |-> 0]

\* call when no pure function is applied
NoPureCall == [fn |-> "none"]

\* ret before the call is made, and once it has returned or raised
Pending == [done |-> FALSE, err |-> FALSE, out |-> <<>>]

Done(r) == [done |-> TRUE, err |-> r.err, out |-> r.out]

NoFiles == <<>>

\* the bookkeeping of one fetch_with_cache call with outcome o
Fetched(url, o) ==
    /\ cache' = o.files
    /\ lastCall' = [url |-> url, hit |-> cache_key(url) \in DOMAIN cache,
                    before |-> cache, get |-> o.get, err |-> o.err,
                    content |-> o.content, run |-> runs]
    /\ okGets' = IF o.get = "ok" /\ url \in DOMAIN okGets
                 THEN [okGets EXCEPT ![url] = @ + 1] ELSE okGets
    /\ net' = IF o.get = "none" THEN net
              ELSE Append(net, [url |-> url, ok |-> o.get = "ok"])

\* main, line 176
GetMountPages ==
    /\ pc = "start"
    /\ \E o \in fetch_with_cache(BASE_URL, cache, Server(homepage)) :
          /\ Fetched(BASE_URL, o)
          /\ IF o.err
             THEN /\ pc' = "failed"
                  /\ UNCHANGED <<mounts, mi>>
             ELSE /\ mounts' = get_mount_pages(o.content)
                  /\ mi' = 1
                  /\ pc' = IF get_mount_pages(o.content) = <<>> THEN "done" ELSE "mount"
    /\ UNCHANGED <<homepage, links, lenses, emitted, runs, call, ret>>

\* crawl_mount, lines 152-153
GetLensLinks ==
    /\ pc = "mount"
    /\ LET mount_url == mounts[mi].val
       IN  \E o \in fetch_with_cache(mount_url, cache, Server(homepage)) :
              /\ Fetched(mount_url, o)
              /\ IF o.err
                 THEN /\ pc' = "failed"
                      /\ UNCHANGED <<links, lenses>>
                 ELSE /\ links' = get_lens_links(o.content, mount_url)
                      /\ lenses' = <<>>
                      /\ pc' = "lens"
    /\ UNCHANGED <<homepage, mounts, mi, emitted, runs, call, ret>>

\* the loop iteration with a failed fetch skipped instead of propagated
ParseLensPage_skip ==
    /\ pc = "lens"
    /\ \E lens_link \in links :
          \E o \in fetch_with_cache(lens_link, cache, Server(homepage)) :
             /\ Fetched(lens_link, o)
             /\ IF o.err
                THEN /\ links' = links \ {lens_link}
                     /\ UNCHANGED <<pc, lenses>>
                ELSE IF parse_lens_page(o.content, lens_link).err
                THEN /\ pc' = "failed"
                     /\ UNCHANGED <<links, lenses>>
                ELSE /\ lenses' = Append(lenses, parse_lens_page(o.content, lens_link).specs)
                     /\ links' = links \ {lens_link}
                     /\ pc' = "lens"
    /\ UNCHANGED <<homepage, mounts, mi, emitted, runs, call, ret>>

\* crawl_mount, lines 154-156: one iteration, over the set in any order
ParseLensPage ==
    /\ pc = "lens"
    /\ \E lens_link \in links :
          \E o \in fetch_with_cache(lens_link, cache, Server(homepage)) :
             /\ Fetched(lens_link, o)
             /\ IF o.err \/ parse_lens_page(o.content, lens_link).err
                THEN /\ pc' = "failed"
                     /\ UNCHANGED <<links, lenses>>
                ELSE /\ lenses' = Append(lenses, parse_lens_page(o.content, lens_link).specs)
                     /\ links' = links \ {lens_link}
                     /\ pc' = "lens"
    /\ UNCHANGED <<homepage, mounts, mi, emitted, runs, call, ret>>

\* crawl_mount, lines 158-171, and the next iteration of line 177
PrintTable ==
    /\ pc = "lens"
    /\ links = {}
    /\ LET sorted == sort_lenses(lenses)
       IN  IF sorted.err
           THEN /\ pc' = "failed"
                /\ UNCHANGED <<emitted, mi>>
           ELSE /\ emitted' = Append(emitted,
                        render_table(mounts[mi].key, mounts[mi].val, sorted.rows))
                /\ mi' = mi + 1
                /\ pc' = IF mi + 1 > Len(mounts) THEN "done" ELSE "mount"
    /\ UNCHANGED <<homepage, cache, mounts, links, lenses, lastCall, okGets,
                   net, runs, call, ret>>

\* the program is started again over the same cache directory; the site may
\* have changed meanwhile
Rerun ==
    /\ pc \in {"done", "failed"}
    /\ runs < MaxRuns
    /\ runs' = runs + 1
    /\ homepage' \in HomepageChoices
    /\ pc' = "start"
    /\ mounts' = <<>>
    /\ mi' = 0
    /\ links' = {}
    /\ lenses' = <<>>
    /\ emitted' = <<>>
    /\ net' = <<>>
    /\ UNCHANGED <<cache, lastCall, okGets, call, ret>>

Init ==
    /\ homepage \in HomepageChoices
    /\ cache = NoFiles
    /\ pc = "start"
    /\ mounts = <<>>
    /\ mi = 0
    /\ links = {}
    /\ lenses = <<>>
    /\ emitted = <<>>
    /\ lastCall = NoCall
    /\ okGets = [u \in SiteUrls |-> 0]
    /\ net = <<>>
    /\ runs = 1
    /\ call = NoPureCall
    /\ ret = Pending

Next ==
    \/ GetMountPages
    \/ GetLensLinks
    \/ ParseLensPage
    \/ PrintTable
    \/ Rerun

Spec == Init /\ [][Next]_vars

(***************************************************************************)
(* The pure functions applied to enumerated inputs: call is the pending    *)
(* call, ret its result ([err, out]) once made.                            *)
(***************************************************************************)
\* longest enumerated input string of a normalizer
MaxStrLen == 4

\* largest enumerated focal length, in tenths of a millimetre
MaxFocalTenths == 700

\* most link elements on an enumerated homepage
MaxListing == 3

\* most anchors on an enumerated mount page
MaxAnchors == 2

\* most lens pages of an enumerated mount
MaxLenses == 3

Strings(alphabet, n) == UNION {[1..k -> alphabet] : k \in 0..n}

DigitChar(d) == CHOOSE c \in Digit : DigitVal(c) = d

RECURSIVE IntText(_)
IntText(n) == IF n < 10 THEN <<DigitChar(n)>> ELSE IntText(n \div 10) \o <<DigitChar(n % 10)>>

\* the decimal texts of t tenths: "20.9"; "21" and "21.0"
DecTexts(t) ==
    {IntText(t \div 10) \o <<".", DigitChar(t % 10)>>}
        \cup (IF t % 10 = 0 THEN {IntText(t \div 10)} ELSE {})

\* focal-length texts that carry no number where one is expected
OddFocalTexts ==
    { <<>>, <<"N", "/", "A">>, <<"2", "1", "-", "3", "5">>, <<"i", "n", "f">>, <<"2", ".", "1", ".", "0">>, <<" ", "2", "1", " ">> }

PlainFocalInputs ==
    {pre \o num \o unit :
        pre \in {<<>>, Approx},
        num \in (UNION {DecTexts(t) : t \in 0..MaxFocalTenths}) \cup OddFocalTexts,
        unit \in {<<>>, UnitMM}}

\* displayed focal length followed by the full-frame-equivalent one, in
\* brackets as on the site or bare
EquivFocalInputs ==
    {shown \o open \o DX \o num \o unit \o close :
        shown \in {<<"5", "0", "m", "m">>, <<"~", "1", "7", ".", "5", "m", "m">>},
        open \in {<<>>, <<"(">>},
        num \in (UNION {DecTexts(t) : t \in 0..MaxFocalTenths}) \cup OddFocalTexts,
        unit \in {UnitMM},
        close \in {<<")">>}}
    \cup {<<"5", "0", "F", "S", ":", "7", "5">>, <<"F", "S", ":">>, <<"5", "0", "(", "F", "S", ":", "7", "5", ")", "(", "F", "S", ":", "2", "0", ")">>}

FocalInputs == PlainFocalInputs \cup EquivFocalInputs

CvtInputs ==
    Strings({"6", ".", "x", "m"}, MaxStrLen)
        \cup {<<"6", "3", ".", "5", "x", "4", "2", "m", "m">>, <<"0", ".", "7", "m">>, <<"2", "5", "5", "g">>}

CvtUnits == {<<"m">>, <<"m", "m">>, <<"g">>}

FNumberInputs ==
    Strings({"1", " ", ":", "5", "."}, MaxStrLen)
        \cup {<<"1", ":", "2", ".", "5">>, <<"1", " ", ":", " ", "2", ".", "5">>, <<"F", "1", ":", "1", ".", "5">>}

LensConstInputs ==
    Strings({"6", "G", "E", "a"}, MaxStrLen)
        \cup {<<"6", "G", "8", "E">>, <<"1", "0", "G", "1", "2", "E">>}

\* mount URLs with and without the final slash
MountUrlInputs == {<<"V", "/", "a">>, <<"V", "/", "a", "/">>}

\* hrefs at, under, beside and outside the mount URL
LinkInputs ==
    {<<"V", "/", "a">> \o suffix : suffix \in Strings({"/", "b"}, 2)}
        \cup {<<"V", "/", "a", "/", "b", "/">>, <<"V", "/", "b", "/">>, <<"a", "/", "b">>}

ListingInputs ==
    Strings({Entry(h, n) :
                h \in {MountA, MountC},
                n \in {<<"VM">>, <<" ", "Z", " ">>, <<"ACCESSORIES">>,
                       <<" ", "ACCESSORIES", " ">>, <<"ACCESSORIES", " ", "VM">>}},
            MaxListing)

\* stands for a lens page with no focal-length row
NoFocalRow == <<"no row">>

\* focal-length values of a mount's lens pages
LensFocalInputs ==
    Strings({<<"2", "1", "m", "m">>, <<"5", "0", "m", "m">>, <<"5", "0", "m", "m", "(", "F", "S", ":", "7", "5", "m", "m", ")">>, <<"6", "0", "m", "m">>, <<"i", "n", "f">>, NoFocalRow}, MaxLenses)

Calls ==
    {[fn |-> "format_focal", value |-> v] : v \in FocalInputs}
    \cup {[fn |-> "format_cvt", value |-> v, unit |-> u] : v \in CvtInputs, u \in CvtUnits}
    \cup {[fn |-> "format_f_number", value |-> v] : v \in FNumberInputs}
    \cup {[fn |-> "format_lens_const", value |-> v] : v \in LensConstInputs}
    \cup {[fn |-> "get_lens_links", mount_url |-> m, anchors |-> a] :
            m \in MountUrlInputs, a \in Strings(LinkInputs, MaxAnchors)}
    \cup {[fn |-> "get_mount_pages", listing |-> l] : l \in ListingInputs}
    \cup {[fn |-> "crawl_mount", focals |-> f] : f \in LensFocalInputs}

Calling(fn) == pc = "idle" /\ ~ret.done /\ call.fn = fn

CallFormatFocal ==
    /\ Calling("format_focal")
    /\ ret' = Done(format_focal(call.value))
    /\ UNCHANGED <<crawlVars, call>>

CallFormatCvt ==
    /\ Calling("format_cvt")
    /\ ret' = Done(format_cvt(call.value, call.unit))
    /\ UNCHANGED <<crawlVars, call>>

CallFormatFNumber ==
    /\ Calling("format_f_number")
    /\ ret' = Done(format_f_number(call.value))
    /\ UNCHANGED <<crawlVars, call>>

CallFormatLensConst ==
    /\ Calling("format_lens_const")
    /\ ret' = Done(format_lens_const(call.value))
    /\ UNCHANGED <<crawlVars, call>>

CallGetLensLinks ==
    /\ Calling("get_lens_links")
    /\ ret' = Done([err |-> FALSE,
                     out |-> get_lens_links(MountPage(call.anchors), call.mount_url)])
    /\ UNCHANGED <<crawlVars, call>>

CallGetMountPages ==
    /\ Calling("get_mount_pages")
    /\ ret' = Done([err |-> FALSE,
                     out |-> get_mount_pages([EmptyPage EXCEPT !.listing = call.listing])])
    /\ UNCHANGED <<crawlVars, call>>

\* the i-th lens page of the enumerated mount and its URL
LensUrlOf(i) == MountA \o IntText(i) \o <<"/">>

LensPageOf(focal) ==
    LensPage(IF focal = NoFocalRow THEN <<>> ELSE <<Row("focal length", focal)>>,
             "NOKTON", <<"50mm", "F1.5", "Aspherical">>)

\* lines 154-156 over the pages in the order given: each page parsed
ParseAll(focals) ==
    [i \in 1..Len(focals) |-> parse_lens_page(LensPageOf(focals[i]), LensUrlOf(i))]

\* crawl_mount with every page fetched: the rows of the printed table
CallCrawlMount ==
    /\ Calling("crawl_mount")
    /\ \E parsed \in {ParseAll(call.focals)} :
          IF \E i \in 1..Len(parsed) : parsed[i].err
          THEN ret' = Done(Raise)
          ELSE \E sorted \in {sort_lenses([i \in 1..Len(parsed) |-> parsed[i].specs])} :
                  ret' = IF sorted.err
                         THEN Done(Raise)
                         ELSE Done([err |-> FALSE, out |-> sorted.rows])
    /\ UNCHANGED <<crawlVars, call>>

InitFn ==
    /\ homepage = <<>>
    /\ cache = NoFiles
    /\ pc = "idle"
    /\ mounts = <<>>
    /\ mi = 0
    /\ links = {}
    /\ lenses = <<>>
    /\ emitted = <<>>
    /\ lastCall = NoCall
    /\ okGets = [u \in SiteUrls |-> 0]
    /\ net = <<>>
    /\ runs = 1
    /\ call \in Calls
    /\ ret = Pending

NextFn ==
    \/ CallFormatFocal
    \/ CallFormatCvt
    \/ CallFormatFNumber
    \/ CallFormatLensConst
    \/ CallGetLensLinks
    \/ CallGetMountPages
    \/ CallCrawlMount

SpecFn == InitFn /\ [][NextFn]_vars

(***************************************************************************)
(* Properties                                                              *)
(***************************************************************************)
Indices(q) == 1..Len(q)

\* C1: a fetch_with_cache call for a URL whose cache entry exists returns
\* the stored body, leaves the cache as it was and issues no GET; a GET is
\* issued only for a URL without an entry; and over all runs no URL is
\* fetched successfully over the network more than once.
C1_CachedUrlNeverRefetched ==
    /\ lastCall.hit =>
          /\ lastCall.get = "none"
          /\ ~lastCall.err
          /\ lastCall.content = lastCall.before[cache_key(lastCall.url)]
          /\ cache = lastCall.before
    /\ lastCall.get # "none" => ~lastCall.hit
    /\ \A u \in DOMAIN okGets : okGets[u] <= 1

\* a second run is handed the homepage stored by the first although the
\* site now lists other mounts
C1_Witness ==
    /\ lastCall.run = 2
    /\ lastCall.url = BASE_URL
    /\ lastCall.hit
    /\ lastCall.content.listing # homepage
    /\ okGets[BASE_URL] = 1

\* C10: a failed fetch_with_cache call leaves the cache store as it was,
\* with no entry for its URL, and no call changes or removes an entry that
\* existed before it.
C10_FailedFetchWritesNothing ==
    /\ lastCall.err =>
          /\ cache = lastCall.before
          /\ cache_key(lastCall.url) \notin DOMAIN cache
    /\ \A k \in DOMAIN lastCall.before :
          k \in DOMAIN cache /\ cache[k] = lastCall.before[k]

\* the homepage is fetched over the network in the second run: the first
\* run's fetch of it failed and left no entry behind
C10_Witness ==
    /\ lastCall.run = 2
    /\ lastCall.url = BASE_URL
    /\ lastCall.get = "ok"
    /\ cache_key(BASE_URL) \in DOMAIN cache

\* C6: every printed table belongs to a mount whose page and whose every
\* discovered lens page were fetched or read from the cache; no URL is
\* requested twice in a run and a failed request is the last thing the run
\* does; a failed run has printed no table for the mount it was processing;
\* and with no homepage obtained no table is printed.
C6_TableOnlyAfterEveryFetch ==
    /\ \A i \in Indices(emitted) :
          /\ cache_key(emitted[i].mount_url) \in DOMAIN cache
          /\ {emitted[i].rows[j].reference : j \in Indices(emitted[i].rows)}
                = get_lens_links(cache[cache_key(emitted[i].mount_url)],
                                 emitted[i].mount_url)
          /\ \A j \in Indices(emitted[i].rows) :
                cache_key(emitted[i].rows[j].reference) \in DOMAIN cache
    /\ \A i, j \in Indices(net) : net[i].url = net[j].url => i = j
    /\ \A i \in Indices(net) : ~net[i].ok => (i = Len(net) /\ pc = "failed")
    /\ (pc = "failed" /\ mi >= 1) =>
          \A i \in Indices(emitted) : emitted[i].mount_name # mounts[mi].key
    /\ cache_key(BASE_URL) \notin DOMAIN cache => emitted = <<>>

\* the fetch of a lens page of the second mount fails after the first
\* mount's table has been printed
C6_Witness ==
    /\ pc = "failed"
    /\ lastCall.err
    /\ lastCall.get = "failed"
    /\ Len(emitted) = 1
    /\ mi = 2
    /\ lenses # <<>>

IsListed(e) == Strip(e.name) # Accessories

\* the homepage link elements other than the accessories one, as
\* (display name, URL)
ListedMounts(listing) ==
    LET kept == SelectSeq(listing, IsListed)
    IN  [i \in Indices(kept) |-> [name |-> Strip(kept[i].name), url |-> kept[i].href]]

IsSubsequence(a, b) ==
    \E f \in [Indices(a) -> Indices(b)] :
        /\ \A i, j \in Indices(a) : i < j => f[i] < f[j]
        /\ \A i \in Indices(a) : b[f[i]] = a[i]

\* C3: at the end of a run in which no fetch failed, one table has been
\* printed for each distinct display name other than the accessories one,
\* and the printed tables (mount name, mount URL) follow the order of their
\* link elements on the homepage.
C3_OneTablePerMountInHomepageOrder ==
    (pc \in {"done", "failed"} /\ \A i \in Indices(net) : net[i].ok) =>
        LET listed == ListedMounts(cache[cache_key(BASE_URL)].listing)
            tables == [i \in Indices(emitted) |->
                          [name |-> emitted[i].mount_name, url |-> emitted[i].mount_url]]
        IN  /\ {tables[i].name : i \in Indices(tables)}
                  = {listed[i].name : i \in Indices(listed)}
            /\ Len(tables) = Cardinality({listed[i].name : i \in Indices(listed)})
            /\ IsSubsequence(tables, listed)

\* C8: the result of get_mount_pages has no entry named ACCESSORIES, has an
\* entry for every other display name listed (whitespace trimmed) and for
\* no other name, and has no two entries with the same name.
C8_MountsExcludeAccessories ==
    (ret.done /\ call.fn = "get_mount_pages") =>
        /\ \A i \in Indices(ret.out) : ret.out[i].key # Accessories
        /\ {ret.out[i].key : i \in Indices(ret.out)}
              = {Strip(call.listing[i].name) : i \in Indices(call.listing)} \ {Accessories}
        /\ \A i, j \in Indices(ret.out) : ret.out[i].key = ret.out[j].key => i = j

\* a homepage with a padded accessories entry and one name listed twice
C8_Witness ==
    /\ ret.done
    /\ call.fn = "get_mount_pages"
    /\ \E i \in Indices(call.listing) :
          call.listing[i].name = <<" ", "ACCESSORIES", " ">>
    /\ \E i, j \in Indices(call.listing) :
          i < j /\ call.listing[i].name = <<"VM">> /\ call.listing[j].name = <<"VM">>
    /\ Len(ret.out) = 1

\* whether link lies under the path of mount_url: the mount URL without its
\* final slashes, a slash, and something more than slashes
IsPathDescendant(link, mount_url) ==
    /\ StartsWith(link, RStrip(mount_url, {"/"}) \o <<"/">>)
    /\ RStrip(link, {"/"}) # RStrip(mount_url, {"/"})

\* C2: get_lens_links(M) holds neither M nor M with its final slash added
\* or removed, and holds only links whose path lies under M's path.
C2_LensLinksAreDescendants ==
    (ret.done /\ call.fn = "get_lens_links") =>
        \A link \in ret.out :
            /\ link # call.mount_url
            /\ link # RStrip(call.mount_url, {"/"})
            /\ link # RStrip(call.mount_url, {"/"}) \o <<"/">>
            /\ IsPathDescendant(link, call.mount_url)

\* the text of a focal-length cell after its "|"
DisplayValue(cell) == SubSeq(cell, Find(cell, <<"|">>) + 1, Len(cell))

\* the first number of the displayed focal length; 0 without one
DisplayedFocal(row) ==
    LET toks == findall_num(DisplayValue(Get(row, "focal_length", <<"|", "0">>)))
    IN  IF toks = <<>> \/ ~PyFloat(toks[1]).ok THEN FloatOfInt(0) ELSE PyFloat(toks[1])

\* C4: the rows of a printed table are in ascending order of the first
\* number of each record's displayed focal length (0 for a record without
\* one), whatever the order the pages were parsed in.
C4_RowsAscendByDisplayedFocal ==
    (ret.done /\ call.fn = "crawl_mount" /\ ~ret.err) =>
        /\ Len(ret.out) = Len(call.focals)
        /\ \A i, j \in Indices(ret.out) :
              i < j => ~FloatLt(DisplayedFocal(ret.out[j]), DisplayedFocal(ret.out[i]))

Normalizers == {"format_lens_const", "format_cvt", "format_f_number", "format_focal"}

\* C5: no normalizer raises, and format_focal hands back its input when
\* what is left after stripping the unit and the approximately marker is
\* not a number.
C5_NormalizersNeverFail ==
    (ret.done /\ call.fn \in Normalizers) =>
        /\ ~ret.err
        /\ (/\ call.fn = "format_focal"
            /\ ~Contains(call.value, DX)
            /\ ~PyFloat(Replace(Replace(call.value, UnitMM, <<>>), Approx, <<>>)).ok)
           => ret.out = call.value

\* the colour code of a focal-length cell
CellColor(cell) == SubSeq(cell, Len(StyleOpen) + 1, Len(StyleOpen) + 3)

HasSortAttr(cell) == Contains(cell, SortAttrOpen)

\* the sort value of a cell: its data-sort-value when it has one, the
\* displayed value otherwise
CellSortValue(cell) ==
    IF HasSortAttr(cell)
    THEN LET after == SubSeq(cell, Find(cell, SortAttrOpen) + Len(SortAttrOpen), Len(cell))
         IN  PyFloat(SubSeq(after, 1, Find(after, <<"\"">>) - 1))
    ELSE PyFloat(DisplayValue(cell))

C9_CvtTemplateOrUnchanged ==
    (ret.done /\ call.fn = "format_cvt") =>
        /\ ~ret.err
        /\ ret.out =
              IF findall_num(call.value) = <<>>
              THEN call.value
              ELSE CvtOpen
                     \o (IF Contains(call.value, Times)
                         THEN Join(findall_num(call.value), <<"|", "x", "|">>)
                         ELSE findall_num(call.value)[1])
                     \o <<"|">>
                     \o (IF call.unit = <<"m">> THEN <<"m", "|", "f", "t">> ELSE call.unit)
                     \o TemplateClose

=============================================================================
